---------------------------- MODULE Spec2Model ----------------------------
(***************************************************************************)
(* Model of the two wallet scanners of the repository:                     *)
(*   variant "win" : WalletScanner       (src/cws_win.py)                  *)
(*   variant "v2"  : AsyncWalletScanner  (src/cws_v2.py)                   *)
(*                                                                         *)
(* Both run on a single-threaded asyncio event loop, so the code between   *)
(* two awaits is one atomic step.  A chain lookup (get_btc_balance or      *)
(* get_eth_balance) is a task with a position pc:                          *)
(*   created  -> the task object exists, its coroutine has not run yet     *)
(*   wait_sem -> inside "async with self.semaphore", no slot yet           *)
(*   delay    -> slot held, in asyncio.sleep(request_delays[chain]) (win)  *)
(*   http     -> slot held, request issued, waiting for the response       *)
(*   backoff  -> slot held, in asyncio.sleep(2) after a 429 (win)          *)
(*   done     -> returned a balance                                        *)
(*   raised   -> ended by an exception that left the coroutine             *)
(*   cancelled-> ended by the CancelledError an interrupt threw into it    *)
(*                                                                         *)
(* Durations are exact rationals [num, den] (seconds); a balance is the    *)
(* pair [raw, exp] standing for raw / 10^exp, as the code computes it      *)
(* (raw / 100000000 for BTC, raw / 10**18 for ETH; the literal 0.0 is      *)
(* [0, 0]).                                                                *)
(***************************************************************************)
EXTENDS Integers, Sequences, FiniteSets, TLC

\* ------------------------------------------------------------- bounds
\* iterations of the scan loop explored under Spec
MaxScans == 3
\* largest raw balance (minor units) an upstream service reports
MaxRaw == 1
\* private keys are drawn from 0..MaxKey in live mode
MaxKey == 1
\* lookups started together under SpecBurst
BurstSize == 3
\* ceilings 1..MaxCeiling are tried under SpecBurst
MaxCeiling == 2
\* iterations of the scan loop explored under SpecThrottled
MaxThrottledScans == 8
\* iterations of the scan loop explored under SpecFair
MaxFairScans == 1
\* lookups started together under SpecFair
MaxFairBurst == 2
\* ceilings 1..MaxFairCeiling are tried under SpecFair
MaxFairCeiling == 2

\* ------------------------------------------------- program constants
\* main(): WalletScanner(max_concurrent_requests=15)
MaxConcurrentWin == 15
\* main(): AsyncWalletScanner(max_concurrent_requests=10)
MaxConcurrentV2 == 10
\* run_scan(target_scans=None)
NoTarget == -1
\* generate_secure_private_key: scan_count % 10
TestKeyModulus == 10
\* final_balance / 100000000
BtcExp == 8
\* int(result) / 10**18
EthExp == 18

VARIABLES
    variant,         \* "win" | "v2": which scanner class runs
    TESTMODE,        \* the module-level mode flag
    target_scans,    \* run_scan's argument (NoTarget = None)
    max_concurrent,  \* the ceiling the semaphore was built with
    session,         \* self.session: "none" | "open" | "closed"
    sem_value,       \* self.semaphore: free slots
    request_delays,  \* self.request_delays (win only)
    scan_count,      \* self.scan_count
    found_count,     \* self.found_count
    save_calls,      \* number of save_found_wallet invocations
    wallet,          \* run_scan's local wallet (NoWallet before the first)
    tasks,           \* the lookup tasks of the current check / burst
    pc,              \* position of main / run_scan
    error_escaped,   \* an exception propagated out of run_scan
    requests_sent,   \* number of session.get calls issued so far
    generated,       \* number of candidates generated so far
    interrupted,     \* an interrupt (SIGINT) has been delivered
    close_count,     \* number of session.close() calls made so far
    pause,           \* length of run_scan's latest end-of-loop sleep
    error_caught     \* run_scan's "except Exception" has handled an error

vars == << variant, TESTMODE, target_scans, max_concurrent, session, sem_value,
           request_delays, scan_count, found_count, save_calls, wallet, tasks,
           pc, error_escaped, requests_sent, generated, interrupted,
           close_count, pause, error_caught >>

Variants == {"win", "v2"}
Chains == {"btc", "eth"}

\* ---------------------------------------------------------- numbers
Rat(n, d) == [num |-> n, den |-> d]
RatLess(a, b) == a.num * b.den < b.num * a.den
RatLeq(a, b) == a.num * b.den <= b.num * a.den

Float(raw, exp) == [raw |-> raw, exp |-> exp]
ZeroFloat == Float(0, 0)
Positive(b) == b.raw > 0

\* self.request_delays = {'btc': 0.5, 'eth': 0.3}
InitialDelays == [btc |-> Rat(1, 2), eth |-> Rat(3, 10)]

\* self.request_delays[chain] *= 1.5
Throttle(d) == Rat(d.num * 3, d.den * 2)


\* ------------------------------------------------------ lookup tasks
NoDelay == Rat(0, 0)
Terminal == {"done", "raised", "cancelled"}

\* asyncio.create_task(self.get_<chain>_balance(address))
NewTask(chain) ==
    [chain |-> chain, pc |-> "created", slot |-> FALSE, result |-> ZeroFloat,
     http |-> "none", printed |-> FALSE, nreq |-> 0, nacq |-> 0,
     waited |-> NoDelay]

\* what the upstream service (or the transport) can answer to one request
HttpOutcomes(chain) ==
    {"ok", "badjson", "schema", "throttled", "other", "timeout", "transport"}
        \cup (IF chain = "eth" THEN {"status0", "badresult"} ELSE {})

\* the exception a response makes the request block raise
ExcOf(o) ==
    CASE o = "timeout" -> "TimeoutError"
      [] o = "transport" -> "ClientError"
      [] o = "badjson" -> "ContentTypeError"
      [] o = "schema" -> "KeyError"
      [] o = "badresult" -> "ValueError"
      [] OTHER -> "Exception"

BackoffStatusesAnyError == {"throttled", "other"}
\* elif response.status == 429
BackoffStatuses == {"throttled"}

\* the body of "async with self.session.get(url) as response" of variant v on
\* a response o carrying raw balance raw: what the block does next
\*   return  -> a return statement inside the block
\*   fall    -> the block ends, control reaches the final "return 0.0"
\*   raise   -> an exception leaves the block
\*   backoff -> the 429 branch (win)
Body(v, chain, o, raw) ==
    LET exp == IF chain = "btc" THEN BtcExp ELSE EthExp
    IN  CASE o \in {"timeout", "transport", "badjson", "badresult"} ->
                 [kind |-> "raise", value |-> ZeroFloat]
          [] o = "ok" -> [kind |-> "return", value |-> Float(raw, exp)]
          [] o = "schema" ->
                 IF v = "v2" THEN [kind |-> "raise", value |-> ZeroFloat]
                 ELSE IF chain = "btc"
                      THEN [kind |-> "return", value |-> Float(0, exp)]
                      ELSE [kind |-> "fall", value |-> ZeroFloat]
          [] o \in BackoffStatuses ->
                 IF v = "win" THEN [kind |-> "backoff", value |-> ZeroFloat]
                 ELSE [kind |-> "fall", value |-> ZeroFloat]
          [] OTHER -> [kind |-> "fall", value |-> ZeroFloat]

CatchesSome(exc) == exc \in {"ClientError", "ContentTypeError"}
\* except Exception
Catches(exc) == TRUE

\* the except clause prints only in WalletScanner, and only in live mode
PrintsOnError(v) == v = "win" /\ ~TESTMODE

SemaphoreInitOffByOne(n) == n + 1
\* asyncio.Semaphore(max_concurrent_requests)
SemaphoreInit(n) == n

\* asyncio.Semaphore.locked()
SemLocked == sem_value = 0

HasDelayNever(v) == FALSE
\* await asyncio.sleep(self.request_delays[chain]) before the request
HasDelay(v) == v = "win"

SlotsAfterExitLeakOnExcept(free, how) ==
    IF how = "except" THEN free ELSE free + 1
SlotsAfterExitLeakOnCancel(free, how) ==
    IF how = "cancel" THEN free ELSE free + 1
\* async with self.semaphore: leaving the block releases the slot, however
\* the block is left (a return, an exception caught outside it, cancellation)
SlotsAfterExit(free, how) == free + 1

\* the coroutine returns value (the slot, if held, is released on the way)
Returned(task, value) ==
    [task EXCEPT !.pc = "done", !.slot = FALSE, !.result = value]

\* an exception exc is raised inside the try block
Excepted(task, exc) ==
    IF Catches(exc)
    THEN [Returned(task, ZeroFloat) EXCEPT !.printed = PrintsOnError(variant)]
    ELSE [task EXCEPT !.pc = "raised", !.slot = FALSE]

\* self.session.get(url) by a task that holds a slot; free is the number of
\* free slots while it holds its own.  On a session that is not open the call
\* raises inside the try block.
IssueRequest(t, task, free) ==
    IF session = "open"
    THEN /\ tasks' = [tasks EXCEPT ![t] = [task EXCEPT !.pc = "http",
                                                       !.nreq = @ + 1]]
         /\ requests_sent' = requests_sent + 1
         /\ sem_value' = free
    ELSE /\ tasks' = [tasks EXCEPT ![t] = Excepted(task, "RuntimeError")]
         /\ requests_sent' = requests_sent
         /\ sem_value' = SlotsAfterExit(free, "except")

MockedNever == FALSE
\* if TESTMODE: return 0.0
Mocked == TESTMODE

CanStartInOrder(ts, t) == \A i \in 1..(t - 1) : ts[i].pc \in Terminal
\* btc_task and eth_task are both made with asyncio.create_task before the
\* first await, so each starts whatever the state of the other
CanStart(ts, t) == TRUE

\* first step of get_btc_balance / get_eth_balance
LookupStart(t) ==
    /\ pc # "cancelling"
    /\ CanStart(tasks, t)
    /\ tasks[t].pc = "created"
    /\ tasks' = [tasks EXCEPT ![t] =
                    IF Mocked THEN Returned(@, ZeroFloat)
                    ELSE [@ EXCEPT !.pc = "wait_sem"]]
    /\ UNCHANGED << variant, TESTMODE, target_scans, max_concurrent, session,
                    sem_value, request_delays, scan_count, found_count,
                    save_calls, wallet, pc, error_escaped, requests_sent,
                    generated,
                    interrupted, close_count, pause,
                    error_caught >>

\* async with self.semaphore: the slot is granted; win then starts its
\* per-chain delay, v2 issues the request at once
Acquire(t) ==
    /\ pc # "cancelling"
    /\ tasks[t].pc = "wait_sem"
    /\ ~SemLocked
    /\ LET held == [tasks[t] EXCEPT !.slot = TRUE, !.nacq = @ + 1]
       IN  IF HasDelay(variant)
           THEN /\ tasks' = [tasks EXCEPT ![t] =
                       [held EXCEPT !.pc = "delay",
                                    !.waited = request_delays[held.chain]]]
                /\ sem_value' = sem_value - 1
                /\ requests_sent' = requests_sent
           ELSE IssueRequest(t, held, sem_value - 1)
    /\ UNCHANGED << variant, TESTMODE, target_scans, max_concurrent, session,
                    request_delays, scan_count, found_count, save_calls,
                    wallet, pc, error_escaped, generated,
                    interrupted, close_count, pause,
                    error_caught >>

\* the per-chain delay has elapsed: the request is issued
DelayDone(t) ==
    /\ pc # "cancelling"
    /\ tasks[t].pc = "delay"
    /\ IssueRequest(t, tasks[t], sem_value)
    /\ UNCHANGED << variant, TESTMODE, target_scans, max_concurrent, session,
                    request_delays, scan_count, found_count, save_calls,
                    wallet, pc, error_escaped, generated,
                    interrupted, close_count, pause,
                    error_caught >>

AfterBackoffRetry == "delay"
\* after asyncio.sleep(2) the 429 branch ends and the call returns 0.0
AfterBackoff == "done"

DelayKeyBtc(chain) == "btc"
\* get_btc_balance updates request_delays['btc'], get_eth_balance ['eth']
DelayKey(chain) == chain

NewDelaysDecay(delays, chain, kind) ==
    IF kind = "backoff"
    THEN [delays EXCEPT ![DelayKey(chain)] = Throttle(@)]
    ELSE IF kind = "return" /\ variant = "win"
         THEN [delays EXCEPT ![DelayKey(chain)] = Rat(@.num * 2, @.den * 3)]
         ELSE delays
\* request_delays after the response was handled: only the 429 branch
\* assigns it
NewDelays(delays, chain, kind) ==
    IF kind = "backoff"
    THEN [delays EXCEPT ![DelayKey(chain)] = Throttle(@)]
    ELSE delays

\* the request ends with one of the outcomes in allowed
Respond(t, allowed) ==
    /\ pc # "cancelling"
    /\ tasks[t].pc = "http"
    /\ \E o \in HttpOutcomes(tasks[t].chain) \cap allowed :
       \E raw \in (IF o = "ok" THEN 0..MaxRaw ELSE {0}) :
         LET seen == [tasks[t] EXCEPT !.http = o]
             b == Body(variant, seen.chain, o, raw)
         IN  /\ request_delays' = NewDelays(request_delays, seen.chain, b.kind)
             /\ IF b.kind = "backoff"
                THEN /\ tasks' = [tasks EXCEPT ![t] =
                                    [seen EXCEPT !.pc = "backoff"]]
                     /\ sem_value' = sem_value
                ELSE /\ tasks' = [tasks EXCEPT ![t] =
                            IF b.kind = "raise" THEN Excepted(seen, ExcOf(o))
                            ELSE Returned(seen, b.value)]
                     /\ sem_value' = SlotsAfterExit(sem_value,
                            IF b.kind = "raise" THEN "except" ELSE "return")
    /\ UNCHANGED << variant, TESTMODE, target_scans, max_concurrent, session,
                    scan_count, found_count, save_calls, wallet, pc,
                    error_escaped, requests_sent, generated,
                    interrupted, close_count, pause,
                    error_caught >>

\* asyncio.sleep(2) of the 429 branch has elapsed
BackoffDone(t) ==
    /\ pc # "cancelling"
    /\ tasks[t].pc = "backoff"
    /\ IF AfterBackoff = "done"
       THEN /\ tasks' = [tasks EXCEPT ![t] = Returned(@, ZeroFloat)]
            /\ sem_value' = SlotsAfterExit(sem_value, "return")
       ELSE /\ tasks' = [tasks EXCEPT ![t] = [@ EXCEPT !.pc = AfterBackoff]]
            /\ sem_value' = sem_value
    /\ UNCHANGED << variant, TESTMODE, target_scans, max_concurrent, session,
                    request_delays, scan_count, found_count, save_calls,
                    wallet, pc, error_escaped, requests_sent, generated,
                    interrupted, close_count, pause,
                    error_caught >>

\* ------------------------------------------------- main and run_scan
NoWallet == [private_key |-> -1, btc_balance |-> ZeroFloat,
             eth_balance |-> ZeroFloat]

\* WalletInfo(btc_address, eth_address, private_key): balances default to 0.0
WalletInfo(key) == [private_key |-> key, btc_balance |-> ZeroFloat,
                    eth_balance |-> ZeroFloat]

\* generate_secure_private_key (win) / random.choice over hex digits (v2)
PrivateKeys ==
    IF variant = "win" /\ TESTMODE THEN {scan_count % TestKeyModulus}
    ELSE 0..MaxKey

LoopConditionOneMore ==
    target_scans = NoTarget \/ scan_count <= target_scans
\* while target_scans is None or self.scan_count < target_scans (win);
\* while True (v2, where target_scans is always NoTarget)
LoopCondition == target_scans = NoTarget \/ scan_count < target_scans

\* run_scan has its own "except Exception" only in WalletScanner
RunScanCatches == variant = "win"

GatherReadyFirst(ts) == \E i \in DOMAIN ts : ts[i].pc \in Terminal
\* await asyncio.gather(btc_task, eth_task) with return_exceptions=False:
\* resumes when every task has ended, or as soon as one has raised
GatherReady(ts) ==
    \/ \A i \in DOMAIN ts : ts[i].pc \in Terminal
    \/ \E i \in DOMAIN ts : ts[i].pc = "raised"

GatherResultsSwapped(ts) == [i \in DOMAIN ts |-> ts[Len(ts) + 1 - i].result]
\* gather returns the results in the order of its arguments
GatherResults(ts) == [i \in DOMAIN ts |-> ts[i].result]

\* async with WalletScanner(...) as scanner: __aenter__ opens the session
AEnter ==
    /\ pc = "enter"
    /\ session' = "open"
    /\ pc' = "loop"
    /\ UNCHANGED << variant, TESTMODE, target_scans, max_concurrent, sem_value,
                    request_delays, scan_count, found_count, save_calls,
                    wallet, tasks, error_escaped, requests_sent, generated,
                    interrupted, close_count, pause,
                    error_caught >>

\* one pass of the loop head: a candidate is generated and check_wallet /
\* check_wallet_balances creates its two tasks and awaits gather.  The
\* derivation (hdwallet, not in the repository) may raise.
Iterate(bound) ==
    /\ pc = "loop"
    /\ LoopCondition
    /\ scan_count < bound
    /\ \E key \in PrivateKeys, derived \in BOOLEAN :
         IF derived
         THEN /\ wallet' = WalletInfo(key)
              /\ tasks' = << NewTask("btc"), NewTask("eth") >>
              /\ generated' = generated + 1
              /\ pc' = "gather"
              /\ error_escaped' = error_escaped
              /\ error_caught' = error_caught
         ELSE /\ pc' = "exit"
              /\ error_escaped' = ~RunScanCatches
              /\ error_caught' = RunScanCatches
              /\ UNCHANGED << wallet, tasks, generated >>
    /\ UNCHANGED << variant, TESTMODE, target_scans, max_concurrent, session,
                    sem_value, request_delays, scan_count, found_count,
                    save_calls, requests_sent, interrupted, close_count,
                    pause >>

\* the loop condition is false: run_scan returns
LoopExit ==
    /\ pc = "loop"
    /\ ~LoopCondition
    /\ pc' = "exit"
    /\ UNCHANGED << variant, TESTMODE, target_scans, max_concurrent, session,
                    sem_value, request_delays, scan_count, found_count,
                    save_calls, wallet, tasks, error_escaped, requests_sent,
                    generated,
                    interrupted, close_count, pause,
                    error_caught >>

FoundBoth(w) == Positive(w.btc_balance) /\ Positive(w.eth_balance)
\* if wallet.btc_balance > 0 or wallet.eth_balance > 0
Found(w) == Positive(w.btc_balance) \/ Positive(w.eth_balance)

RatMin(a, b) == IF RatLeq(a, b) THEN a ELSE b
RatMax(a, b) == IF RatLeq(a, b) THEN b ELSE a

\* base_delay = max(self.request_delays.values())
BaseDelay(delays) == RatMax(delays.btc, delays.eth)

\* the length of the sleep at the end of the loop body:
\*   win: asyncio.sleep(min(base_delay * 0.5, 0.1))
\*   v2:  asyncio.sleep(0.3) in live mode, asyncio.sleep(0.1) in test mode
PauseLength ==
    IF variant = "win"
    THEN LET base_delay == BaseDelay(request_delays)
         IN  RatMin(Rat(base_delay.num, base_delay.den * 2), Rat(1, 10))
    ELSE IF TESTMODE THEN Rat(1, 10) ELSE Rat(3, 10)

\* gather resumes check_wallet, which returns to run_scan; run_scan counts,
\* saves and displays without awaiting, then pauses (WalletScanner in test
\* mode goes round the loop without a pause)
GatherReturn ==
    /\ pc = "gather"
    /\ GatherReady(tasks)
    /\ IF \E i \in DOMAIN tasks : tasks[i].pc = "raised"
       THEN /\ pc' = "exit"
            /\ error_escaped' = ~RunScanCatches
            /\ error_caught' = RunScanCatches
            /\ UNCHANGED << wallet, scan_count, found_count, save_calls,
                            pause >>
       ELSE LET r == GatherResults(tasks)
                w == [wallet EXCEPT !.btc_balance = r[1], !.eth_balance = r[2]]
                found == Found(w)
            IN  /\ wallet' = w
                /\ scan_count' = scan_count + 1
                /\ found_count' = found_count + (IF found THEN 1 ELSE 0)
                /\ save_calls' = save_calls + (IF found THEN 1 ELSE 0)
                /\ pc' = IF variant = "win" /\ TESTMODE THEN "loop" ELSE "pause"
                /\ pause' = IF variant = "win" /\ TESTMODE THEN pause
                            ELSE PauseLength
                /\ error_escaped' = error_escaped
                /\ error_caught' = error_caught
    /\ UNCHANGED << variant, TESTMODE, target_scans, max_concurrent, session,
                    sem_value, request_delays, tasks, requests_sent,
                    generated, interrupted, close_count >>

\* the asyncio.sleep at the end of the loop body has elapsed
PauseDone ==
    /\ pc = "pause"
    /\ pc' = "loop"
    /\ UNCHANGED << variant, TESTMODE, target_scans, max_concurrent, session,
                    sem_value, request_delays, scan_count, found_count,
                    save_calls, wallet, tasks, error_escaped, requests_sent,
                    generated,
                    interrupted, close_count, pause,
                    error_caught >>

ClosesOnExitOnlyNormal == ~error_escaped /\ ~interrupted
\* "async with ... as scanner" runs __aexit__ however its block is left
ClosesOnExit == TRUE

\* the interrupt reaches main while it is suspended in gather or in the
\* end-of-loop sleep, or while run_scan is executing between two awaits.
\* Suspended in gather, the cancellation is passed on to the lookup tasks and
\* main resumes once they have ended; otherwise run_scan is left at once.
Interrupt ==
    /\ pc \in {"loop", "gather", "pause"}
    /\ ~interrupted
    /\ interrupted' = TRUE
    /\ pc' = IF pc = "gather" THEN "cancelling" ELSE "exit"
    /\ UNCHANGED << variant, TESTMODE, target_scans, max_concurrent, session,
                    sem_value, request_delays, scan_count, found_count,
                    save_calls, wallet, tasks, error_escaped, requests_sent,
                    generated, close_count, pause,
                    error_caught >>

\* CancelledError is thrown into a lookup at the await it is suspended in: it
\* is not an Exception, so "except Exception" lets it through, and the
\* "async with" blocks it leaves release what they hold
CancelStep(t) ==
    /\ pc = "cancelling"
    /\ tasks[t].pc \notin Terminal
    /\ tasks' = [tasks EXCEPT ![t] = [@ EXCEPT !.pc = "cancelled",
                                               !.slot = FALSE]]
    /\ sem_value' = IF tasks[t].slot THEN SlotsAfterExit(sem_value, "cancel")
                    ELSE sem_value
    /\ UNCHANGED << variant, TESTMODE, target_scans, max_concurrent, session,
                    request_delays, scan_count, found_count, save_calls,
                    wallet, pc, error_escaped, requests_sent, generated,
                    interrupted, close_count, pause,
                    error_caught >>

GatherCancelReadyNow(ts) == TRUE
\* a cancelled gather raises CancelledError in its awaiter only once every
\* task it gathers has ended
GatherCancelReady(ts) == \A i \in DOMAIN ts : ts[i].pc \in Terminal

\* the cancelled gather raises in check_wallet; the error leaves run_scan,
\* whose except clauses do not name it
GatherCancelled ==
    /\ pc = "cancelling"
    /\ GatherCancelReady(tasks)
    /\ pc' = "exit"
    /\ UNCHANGED << variant, TESTMODE, target_scans, max_concurrent, session,
                    sem_value, request_delays, scan_count, found_count,
                    save_calls, wallet, tasks, error_escaped, requests_sent,
                    generated, interrupted, close_count, pause,
                    error_caught >>

\* __aexit__: if self.session: await self.session.close()
AExit ==
    /\ pc = "exit"
    /\ IF ClosesOnExit /\ session # "none"
       THEN /\ session' = "closed"
            /\ close_count' = close_count + 1
       ELSE UNCHANGED << session, close_count >>
    /\ pc' = "done"
    /\ UNCHANGED << variant, TESTMODE, target_scans, max_concurrent, sem_value,
                    request_delays, scan_count, found_count, save_calls,
                    wallet, tasks, error_escaped, requests_sent, generated,
                    interrupted, pause,
                    error_caught >>

\* ---------------------------------------------------- specifications
AllOutcomes == HttpOutcomes("btc") \cup HttpOutcomes("eth")
ThrottledOnly == {"throttled"}

\* the state after main() has constructed the scanner
Init ==
    /\ variant \in Variants
    /\ TESTMODE \in BOOLEAN
    /\ target_scans \in (IF variant = "win" THEN {NoTarget} \cup (0..MaxScans)
                         ELSE {NoTarget})
    /\ max_concurrent = (IF variant = "win" THEN MaxConcurrentWin
                         ELSE MaxConcurrentV2)
    /\ session = "none"
    /\ sem_value = SemaphoreInit(max_concurrent)
    /\ request_delays = (IF variant = "win" THEN InitialDelays ELSE << >>)
    /\ scan_count = 0
    /\ found_count = 0
    /\ save_calls = 0
    /\ wallet = NoWallet
    /\ tasks = << >>
    /\ pc = "enter"
    /\ error_escaped = FALSE
    /\ requests_sent = 0
    /\ generated = 0
    /\ interrupted = FALSE
    /\ close_count = 0
    /\ pause = NoDelay
    /\ error_caught = FALSE

Next ==
    \/ AEnter
    \/ Iterate(MaxScans)
    \/ LoopExit
    \/ GatherReturn
    \/ PauseDone
    \/ AExit
    \/ Interrupt
    \/ \E t \in DOMAIN tasks : CancelStep(t)
    \/ GatherCancelled
    \/ \E t \in DOMAIN tasks : LookupStart(t)
    \/ \E t \in DOMAIN tasks : Acquire(t)
    \/ \E t \in DOMAIN tasks : DelayDone(t)
    \/ \E t \in DOMAIN tasks : Respond(t, AllOutcomes)
    \/ \E t \in DOMAIN tasks : BackoffDone(t)

Spec == Init /\ [][Next]_vars

\* a scanner built with ceiling n whose session is open, and BurstSize lookups
\* (of overlapping checks: BTC, ETH, BTC, ...) started together
InitBurst ==
    /\ variant \in Variants
    /\ TESTMODE \in BOOLEAN
    /\ target_scans = NoTarget
    /\ max_concurrent \in 1..MaxCeiling
    /\ session = "open"
    /\ sem_value = SemaphoreInit(max_concurrent)
    /\ request_delays = (IF variant = "win" THEN InitialDelays ELSE << >>)
    /\ scan_count = 0
    /\ found_count = 0
    /\ save_calls = 0
    /\ wallet = NoWallet
    /\ tasks = [t \in 1..BurstSize |->
                    NewTask(IF t % 2 = 1 THEN "btc" ELSE "eth")]
    /\ pc = "burst"
    /\ error_escaped = FALSE
    /\ requests_sent = 0
    /\ generated = 0
    /\ interrupted = FALSE
    /\ close_count = 0
    /\ pause = NoDelay
    /\ error_caught = FALSE

NextBurst ==
    \/ \E t \in DOMAIN tasks : LookupStart(t)
    \/ \E t \in DOMAIN tasks : Acquire(t)
    \/ \E t \in DOMAIN tasks : DelayDone(t)
    \/ \E t \in DOMAIN tasks : Respond(t, AllOutcomes)
    \/ \E t \in DOMAIN tasks : BackoffDone(t)

SpecBurst == InitBurst /\ [][NextBurst]_vars

\* the scan of Spec against upstream services that answer every request
\* with HTTP 429
NextThrottled ==
    \/ AEnter
    \/ Iterate(MaxThrottledScans)
    \/ LoopExit
    \/ GatherReturn
    \/ PauseDone
    \/ AExit
    \/ Interrupt
    \/ \E t \in DOMAIN tasks : CancelStep(t)
    \/ GatherCancelled
    \/ \E t \in DOMAIN tasks : LookupStart(t)
    \/ \E t \in DOMAIN tasks : Acquire(t)
    \/ \E t \in DOMAIN tasks : DelayDone(t)
    \/ \E t \in DOMAIN tasks : Respond(t, ThrottledOnly)
    \/ \E t \in DOMAIN tasks : BackoffDone(t)

SpecThrottled == Init /\ [][NextThrottled]_vars

\* ------------------------------------------------------------ claims
\* the lookups between slot acquisition and slot release
Holding == {t \in DOMAIN tasks : tasks[t].pc \in {"delay", "http", "backoff"}}

\* the outcome class of an ended lookup, from the response it received
OutcomeClass(task) ==
    CASE task.http \in {"none", "ok"} -> "Success"
      [] task.http = "throttled" -> "Throttled"
      [] task.http = "timeout" -> "TimedOut"
      [] OTHER -> "Failed"

\* every response that is a fault of the lookup
Faults == AllOutcomes \ {"ok"}

\* the check of the latest candidate has returned to run_scan (a check cut
\* short by an interrupt never returns: its candidate is not counted)
CheckReturned == pc \in {"pause", "loop", "exit", "done"} /\ generated > 0
                     /\ scan_count = generated
                     /\ \A i \in DOMAIN tasks : tasks[i].pc = "done"

\* C1: in live mode, for every ceiling N and every burst of lookups, the
\* number of lookups between slot acquisition and slot release never
\* exceeds N.
C1_CeilingRespected ==
    ~TESTMODE => Cardinality(Holding) <= max_concurrent

\* C1 witness: the ceiling is reached while another lookup of the burst is
\* still waiting for a slot.
C1_Witness ==
    /\ ~TESTMODE
    /\ Cardinality(Holding) = max_concurrent
    /\ \E t \in DOMAIN tasks : tasks[t].pc = "wait_sem"

\* C2: once the check has returned, the record holds the BTC lookup's
\* balance in btc_balance and the ETH lookup's in eth_balance, whatever the
\* two outcomes were, and a chain that did not succeed contributes 0.
C2_RecordComplete ==
    CheckReturned =>
        /\ Len(tasks) = 2
        /\ tasks[1].chain = "btc" /\ wallet.btc_balance = tasks[1].result
        /\ tasks[2].chain = "eth" /\ wallet.eth_balance = tasks[2].result
        /\ \A i \in DOMAIN tasks :
              OutcomeClass(tasks[i]) # "Success" => tasks[i].result.raw = 0

\* C2 witness: BTC timed out, ETH succeeded with a positive balance, and the
\* record holds 0 for BTC and the positive ETH balance.
C2_Witness ==
    /\ CheckReturned
    /\ tasks[1].http = "timeout" /\ tasks[2].http = "ok"
    /\ wallet.btc_balance.raw = 0 /\ Positive(wallet.eth_balance)

\* C3: the check returns to run_scan, and the record is written, counted or
\* saved, only in a step taken when both lookups have ended.
C3_WaitsForAll ==
    [][ (\/ pc \in {"gather", "cancelling"} /\ pc' \notin {"gather", "cancelling"}
         \/ scan_count' # scan_count
         \/ found_count' # found_count
         \/ save_calls' # save_calls
         \/ pc = "gather" /\ wallet' # wallet)
        => \A i \in DOMAIN tasks : tasks[i].pc \in Terminal ]_vars

\* C3 witness: BTC has returned a positive balance while ETH is still in
\* flight, and run_scan is still waiting.
C3_Witness ==
    /\ pc = "gather"
    /\ tasks[1].pc = "done" /\ Positive(tasks[1].result)
    /\ tasks[2].pc = "http"
    /\ scan_count = 0

C5_TestModeOffline ==
    TESTMODE =>
        /\ requests_sent = 0
        /\ \A i \in DOMAIN tasks :
              /\ tasks[i].nreq = 0
              /\ tasks[i].pc # "http"
              /\ tasks[i].result.raw = 0
        /\ wallet.btc_balance.raw = 0
        /\ wallet.eth_balance.raw = 0
        /\ found_count = 0

\* C5 witness: two scans have completed in test mode.
C5_Witness ==
    /\ TESTMODE
    /\ scan_count = 2
    /\ CheckReturned

\* lookup t receives response o in this step
Receives(t, o) ==
    /\ t \in DOMAIN tasks
    /\ tasks[t].pc = "http"
    /\ tasks'[t].http = o

\* C6: in WalletScanner, a lookup on chain X that received HTTP 429 leaves
\* request_delays[X] strictly above the delay it had waited before its
\* request, and the step that handles the 429 raises request_delays[X] and
\* leaves the other chain's entry as it was.
C6_ThrottleRaisesOwnDelay ==
    /\ [](variant = "win" =>
            \A t \in DOMAIN tasks :
               tasks[t].http = "throttled"
                  => RatLess(tasks[t].waited, request_delays[tasks[t].chain]))
    /\ [][ variant = "win" =>
            \A t \in DOMAIN tasks :
               Receives(t, "throttled") =>
                  /\ RatLess(request_delays[tasks[t].chain],
                             request_delays'[tasks[t].chain])
                  /\ \A c \in Chains \ {tasks[t].chain} :
                        request_delays'[c] = request_delays[c] ]_vars

\* C6 witness: the ETH lookup was throttled while the BTC delay is still the
\* initial one and the ETH delay is 1.5 times the initial one.
C6_Witness ==
    /\ variant = "win"
    /\ Len(tasks) = 2
    /\ tasks[2].pc = "backoff" /\ tasks[2].http = "throttled"
    /\ request_delays["eth"] = Throttle(InitialDelays["eth"])
    /\ request_delays["btc"] = InitialDelays["btc"]

\* C7: in WalletScanner, a step in which a lookup receives anything but a
\* 429 leaves every delay unchanged, and a chain's delay changes only by
\* growing, in a step where a lookup of that same chain receives a 429.
C7_DelayChangesOnlyOnOwnThrottle ==
    [][ variant = "win" =>
          /\ \A t \in DOMAIN tasks, o \in AllOutcomes \ {"throttled"} :
                Receives(t, o) => request_delays' = request_delays
          /\ \A c \in Chains :
                request_delays'[c] # request_delays[c] =>
                   /\ RatLess(request_delays[c], request_delays'[c])
                   /\ \E t \in DOMAIN tasks :
                         tasks[t].chain = c /\ Receives(t, "throttled") ]_vars

\* C7 witness: after a throttled BTC lookup raised the BTC delay, a later
\* BTC lookup succeeded with a positive balance and the raised delay stands.
C7_Witness ==
    /\ variant = "win"
    /\ Len(tasks) = 2
    /\ tasks[1].pc = "done" /\ tasks[1].http = "ok"
    /\ Positive(tasks[1].result)
    /\ request_delays["btc"] = Throttle(InitialDelays["btc"])

\* C8: in WalletScanner every chain's adaptive delay stays at or below 10 s.
C8_DelayCapped ==
    variant = "win" =>
        \A c \in Chains : RatLeq(request_delays[c], Rat(10, 1))

\* C9: in WalletScanner a request is issued only by a lookup that holds a
\* slot and has finished waiting the delay its chain had when the wait
\* began; the slot is taken before the wait starts.
C9_SlotThenDelayThenRequest ==
    /\ [](variant = "win" =>
            \A t \in DOMAIN tasks :
               /\ tasks[t].nreq > 0 =>
                     tasks[t].nacq > 0 /\ tasks[t].waited # NoDelay
               /\ tasks[t].pc = "http" => t \in Holding /\ tasks[t].slot)
    /\ [][ variant = "win" =>
            \A t \in DOMAIN tasks \cap DOMAIN tasks' :
               /\ tasks'[t].nreq > tasks[t].nreq =>
                     /\ tasks[t].pc = "delay"
                     /\ tasks[t].slot
                     /\ tasks'[t].waited = tasks[t].waited
               /\ tasks'[t].nacq > tasks[t].nacq =>
                     /\ tasks'[t].pc = "delay"
                     /\ tasks'[t].nreq = 0
                     /\ tasks'[t].waited = request_delays[tasks[t].chain] ]_vars

\* C9 witness: a BTC request is in flight that was issued after waiting the
\* delay raised by an earlier 429.
C9_Witness ==
    /\ variant = "win"
    /\ Len(tasks) = 2
    /\ tasks[1].pc = "http"
    /\ tasks[1].waited = Throttle(InitialDelays["btc"])

\* C10: a lookup acquires at most one slot and issues at most one request,
\* whatever the response; once ended it stays as it ended until the next
\* candidate's lookups replace it; and over the whole scan no more than one
\* request per chain is issued per generated candidate.
C10_NoRetry ==
    /\ [](\A t \in DOMAIN tasks : tasks[t].nreq <= 1 /\ tasks[t].nacq <= 1)
    /\ [](requests_sent <= Cardinality(Chains) * generated)
    /\ [][ \A t \in DOMAIN tasks :
              tasks[t].pc \in Terminal =>
                 \/ tasks'[t] = tasks[t]
                 \/ generated' = generated + 1 /\ tasks'[t].pc = "created" ]_vars

\* C10 witness: the second candidate is being checked after the first
\* candidate's BTC lookup was throttled, with one request per lookup so far.
C10_Witness ==
    /\ variant = "win"
    /\ generated = 2
    /\ pc = "gather"
    /\ request_delays["btc"] = Throttle(InitialDelays["btc"])
    /\ requests_sent = 2

\* some chain's lookup of the current check succeeded with a balance above 0
SomeChainPositive ==
    \E i \in DOMAIN tasks : /\ tasks[i].pc = "done"
                            /\ OutcomeClass(tasks[i]) = "Success"
                            /\ Positive(tasks[i].result)

\* C11: in run_scan, every step leaves found_count and save_calls as they
\* were, except the step that counts a scanned candidate, which adds one to
\* both exactly when some chain's lookup succeeded with a balance above 0
\* (whatever happened to the other chain) and adds nothing otherwise.
C11_SavedIffSomeChainPositive ==
    [][LET scanned == scan_count' = scan_count + 1
           hit == IF scanned /\ SomeChainPositive THEN 1 ELSE 0
       IN  /\ scan_count' # scan_count => scanned /\ pc = "gather"
           /\ found_count' = found_count + hit
           /\ save_calls' = save_calls + hit]_vars

\* C11 witness: the first candidate's BTC lookup succeeded with a positive
\* balance while its ETH lookup was throttled, and the candidate was counted
\* and saved.
C11_Witness ==
    /\ CheckReturned
    /\ scan_count = 1
    /\ tasks[1].http = "ok" /\ Positive(tasks[1].result)
    /\ tasks[2].http = "throttled"
    /\ found_count = 1 /\ save_calls = 1

\* C12: the session is never closed twice; a run that was interrupted has
\* closed it exactly once when it ends; and once the session is closed no
\* lookup acquires a slot or issues a request.
C12_InterruptClosesOnceThenQuiet ==
    /\ [](close_count <= 1)
    /\ [](interrupted /\ pc = "done" => session = "closed" /\ close_count = 1)
    /\ [][session = "closed" =>
            /\ requests_sent' = requests_sent
            /\ DOMAIN tasks' = DOMAIN tasks
            /\ \A t \in DOMAIN tasks :
                  /\ tasks'[t].nacq = tasks[t].nacq
                  /\ tasks'[t].nreq = tasks[t].nreq
                  /\ tasks'[t].slot = tasks[t].slot]_vars

\* C12 witness: the interrupt arrived while the BTC lookup was waiting on its
\* HTTP call and the ETH lookup was still waiting for a slot; both were
\* cancelled and the run ended with the session closed once.
C12_Witness ==
    /\ pc = "done" /\ interrupted
    /\ session = "closed" /\ close_count = 1
    /\ Len(tasks) = 2
    /\ tasks[1].pc = "cancelled" /\ tasks[1].nreq = 1
    /\ tasks[2].pc = "cancelled" /\ tasks[2].nacq = 0

\* C13: every run that ends has its session closed, exactly once, whether
\* run_scan completed, was interrupted or let an error escape; lookups exist
\* only after the session was opened; and the session is opened only from
\* its initial state and never reopened.
C13_SessionOpenedOnceClosedOnEveryExit ==
    /\ [](pc = "done" => session = "closed" /\ close_count = 1)
    /\ [](Len(tasks) > 0 \/ pc \in {"loop", "gather", "pause"}
             => session # "none")
    /\ [][/\ session # "none" => session' # "none"
          /\ session = "closed" => session' = "closed"
          /\ session' # session /\ session' = "open" => pc = "enter"]_vars

\* C13 witness: candidate generation raised in AsyncWalletScanner, the error
\* left run_scan, and the run ended with the session closed.
C13_Witness ==
    /\ pc = "done" /\ error_escaped /\ ~interrupted
    /\ variant = "v2"
    /\ session = "closed" /\ close_count = 1

\* the value a caller sees: 0 / 100000000, 0 / 10**18 and the literal 0.0
\* are the same float
SeenValue(b) == IF b.raw = 0 THEN ZeroFloat ELSE b

\* what a lookup that has returned made observable: its return value and
\* whether it printed a diagnostic
Observation(task) == [value |-> SeenValue(task.result), printed |-> task.printed]

\* the three classes of ended lookup the observation should tell apart
ObservedClass(task) ==
    CASE OutcomeClass(task) = "Throttled" -> "throttled"
      [] OutcomeClass(task) \in {"Failed", "TimedOut"} -> "failed"
      [] OutcomeClass(task) = "Success" /\ task.result.raw = 0 -> "zero"
      [] OTHER -> "positive"

\* C14: two lookups that ended in different classes among throttled, failed
\* or timed out, and successful with a balance of zero, made different
\* observations.
C14_OutcomesDistinguishable ==
    ~TESTMODE =>
      \A i, j \in DOMAIN tasks :
         (/\ tasks[i].pc = "done" /\ tasks[j].pc = "done"
          /\ tasks[i].http # "none" /\ tasks[j].http # "none"
          /\ ObservedClass(tasks[i]) # "positive"
          /\ ObservedClass(tasks[j]) # "positive"
          /\ ObservedClass(tasks[i]) # ObservedClass(tasks[j]))
         => Observation(tasks[i]) # Observation(tasks[j])

\* lookup t can take its next step in the current state
CanProceed(t) ==
    CASE tasks[t].pc = "created" -> ENABLED LookupStart(t)
      [] tasks[t].pc = "wait_sem" -> ENABLED Acquire(t)
      [] tasks[t].pc = "delay" -> ENABLED DelayDone(t)
      [] tasks[t].pc = "http" -> ENABLED Respond(t, AllOutcomes)
      [] tasks[t].pc = "backoff" -> ENABLED BackoffDone(t)
      [] OTHER -> TRUE

\* C15: in live mode with a ceiling of at least 2, the two lookups of a check
\* are created in the same step, and while the check is awaited each lookup
\* that has not ended can take its next step whatever the state of the other
\* (so either can end first).
C15_LookupsRunTogether ==
    /\ [](~TESTMODE /\ max_concurrent >= 2 /\ pc = "gather"
             => \A t \in DOMAIN tasks : CanProceed(t))
    /\ [][generated' # generated
             => /\ Len(tasks') = 2
                /\ tasks'[1] = NewTask("btc")
                /\ tasks'[2] = NewTask("eth")]_vars

\* C15 witness: both lookups of one check hold a slot and wait on their HTTP
\* calls at the same time.
C15_Witness ==
    /\ ~TESTMODE /\ pc = "gather"
    /\ Len(tasks) = 2
    /\ tasks[1].pc = "http" /\ tasks[1].slot
    /\ tasks[2].pc = "http" /\ tasks[2].slot
    /\ sem_value = max_concurrent - 2

\* C16 as stated: a lookup whose response status is known has ended and
\* holds no slot.
C16_NoWaitAfterResponse ==
    \A t \in DOMAIN tasks :
       tasks[t].http # "none" => tasks[t].pc \in Terminal /\ ~tasks[t].slot

\* C16 amended: a lookup is suspended only waiting for its slot, waiting its
\* chain's delay, waiting on the network call or, in WalletScanner after an
\* HTTP 429, in a further sleep during which it still holds its slot.  Every
\* other response ends the lookup in the step that handles it, with the slot
\* released; the sleep after a 429 ends with the slot released, no further
\* request and the balance 0.
C16_WaitsOnlyForSlotCallAndBackoff ==
    /\ [](\A t \in DOMAIN tasks :
            /\ tasks[t].pc \in {"created", "wait_sem", "delay", "http",
                                "backoff"} \cup Terminal
            /\ tasks[t].pc = "backoff"
                  => /\ variant = "win"
                     /\ tasks[t].http = "throttled"
                     /\ tasks[t].slot)
    /\ [][\A t \in DOMAIN tasks :
            /\ (tasks[t].pc = "http" /\ tasks'[t].pc # "http"
                /\ ~(variant = "win" /\ tasks'[t].http = "throttled"))
                  => tasks'[t].pc \in Terminal /\ ~tasks'[t].slot
            /\ (tasks[t].pc = "backoff" /\ tasks'[t].pc # "backoff")
                  => /\ tasks'[t].pc \in {"done", "cancelled"}
                     /\ ~tasks'[t].slot
                     /\ tasks'[t].nreq = tasks[t].nreq
                     /\ tasks'[t].result.raw = 0
                     /\ sem_value' = sem_value + 1]_vars

\* C16 witness: the BTC lookup of WalletScanner was answered 429 and is in
\* its sleep, still holding its slot, while run_scan waits for it.
C16_Witness ==
    /\ variant = "win" /\ pc = "gather"
    /\ Len(tasks) = 2
    /\ tasks[1].pc = "backoff" /\ tasks[1].http = "throttled"
    /\ tasks[1].slot /\ sem_value < max_concurrent

\* ------------------------------------------- fair scheduling (liveness)
\* WalletScanner(max_concurrent_requests=n) / AsyncWalletScanner(...) built
\* with each ceiling 1..MaxFairCeiling, then either run by main or driven by
\* MaxFairBurst lookups started together
InitFair ==
    /\ variant \in Variants
    /\ TESTMODE \in BOOLEAN
    /\ max_concurrent \in 1..MaxFairCeiling
    /\ \/ /\ pc = "enter"
          /\ session = "none"
          /\ tasks = << >>
          /\ target_scans \in (IF variant = "win"
                               THEN {NoTarget} \cup (0..MaxFairScans)
                               ELSE {NoTarget})
       \/ /\ pc = "burst"
          /\ session = "open"
          /\ tasks = [t \in 1..MaxFairBurst |->
                          NewTask(IF t % 2 = 1 THEN "btc" ELSE "eth")]
          /\ target_scans = NoTarget
    /\ sem_value = SemaphoreInit(max_concurrent)
    /\ request_delays = (IF variant = "win" THEN InitialDelays ELSE << >>)
    /\ scan_count = 0
    /\ found_count = 0
    /\ save_calls = 0
    /\ wallet = NoWallet
    /\ error_escaped = FALSE
    /\ requests_sent = 0
    /\ generated = 0
    /\ interrupted = FALSE
    /\ close_count = 0
    /\ pause = NoDelay
    /\ error_caught = FALSE

\* the scan and the lookups, with no interrupt delivered
NextFair ==
    \/ AEnter
    \/ Iterate(MaxFairScans)
    \/ LoopExit
    \/ GatherReturn
    \/ PauseDone
    \/ AExit
    \/ \E t \in DOMAIN tasks : LookupStart(t)
    \/ \E t \in DOMAIN tasks : Acquire(t)
    \/ \E t \in DOMAIN tasks : DelayDone(t)
    \/ \E t \in DOMAIN tasks : Respond(t, AllOutcomes)
    \/ \E t \in DOMAIN tasks : BackoffDone(t)

\* the event loop runs every ready task (a task made by create_task, a
\* semaphore waiter when a slot is free, a sleep that has elapsed, the
\* awaiter of a finished gather), and every network call ends
Fairness ==
    /\ \A t \in 1..MaxFairBurst :
          /\ WF_vars(t \in DOMAIN tasks /\ LookupStart(t))
          /\ WF_vars(t \in DOMAIN tasks /\ Acquire(t))
          /\ WF_vars(t \in DOMAIN tasks /\ DelayDone(t))
          /\ WF_vars(t \in DOMAIN tasks /\ Respond(t, AllOutcomes))
          /\ WF_vars(t \in DOMAIN tasks /\ BackoffDone(t))
    /\ WF_vars(GatherReturn)

SpecFair == InitFair /\ [][NextFair]_vars /\ Fairness

\* C17: under fair scheduling, with every network call ending, a lookup that
\* waits for a slot is eventually granted one, every awaited check eventually
\* returns to run_scan, and every lookup of a burst eventually ends.
C17_SlotsGrantedChecksReturn ==
    /\ \A t \in 1..MaxFairBurst :
          (t \in DOMAIN tasks /\ tasks[t].pc = "wait_sem")
             ~> (t \in DOMAIN tasks /\ tasks[t].nacq = 1)
    /\ (pc = "gather") ~> (pc \in {"pause", "loop", "exit"})
    /\ (pc = "burst") ~> (\A t \in DOMAIN tasks : tasks[t].pc = "done")

\* C17 witness: with ceiling 1 the BTC lookup of a check holds the only slot
\* while the ETH lookup of the same check waits for it.
C17_Witness ==
    /\ pc = "gather" /\ max_concurrent = 1
    /\ Len(tasks) = 2
    /\ tasks[1].slot /\ tasks[2].pc = "wait_sem"
    /\ SemLocked

C19_SlotsHeldMatchLookups ==
    /\ max_concurrent - sem_value = Cardinality(Holding)
    /\ \A t \in DOMAIN tasks :
          /\ tasks[t].slot <=> t \in Holding
          /\ tasks[t].nacq <= 1
          /\ tasks[t].slot => tasks[t].nacq = 1
    /\ Holding = {} => sem_value = max_concurrent

\* C19 witness: an interrupt cancelled the BTC lookup during the sleep that
\* follows a 429, the ETH lookup had returned after its request, and all
\* slots are free again.
C19_Witness ==
    /\ interrupted /\ pc \in {"exit", "done"}
    /\ Len(tasks) = 2
    /\ tasks[1].pc = "cancelled" /\ tasks[1].http = "throttled"
    /\ tasks[1].nacq = 1
    /\ tasks[2].pc = "done" /\ tasks[2].nreq = 1
    /\ sem_value = max_concurrent

\* the lookups on chain c that have not ended
Live(c) == {t \in DOMAIN tasks : tasks[t].chain = c /\ tasks[t].pc \notin Terminal}

\* C20: in a scan driven by run_scan, with the ceiling 15 or 10 that main
\* configures, at most one BTC lookup and at most one ETH lookup exist in any
\* state, a new candidate is generated only when no lookup is left running,
\* and never more than 2 slots are held.
C20_AtMostTwoSlotsHeld ==
    /\ [](/\ max_concurrent \in {MaxConcurrentWin, MaxConcurrentV2}
          /\ Len(tasks) <= 2
          /\ \A c \in Chains : Cardinality(Live(c)) <= 1
          /\ Cardinality(Holding) <= 2
          /\ max_concurrent - sem_value <= 2)
    /\ [][generated' # generated
             => \A t \in DOMAIN tasks : tasks[t].pc \in Terminal]_vars

\* C20 witness: during the check of the second candidate both lookups of
\* WalletScanner hold a slot, 13 of the 15 slots being free.
C20_Witness ==
    /\ variant = "win" /\ generated = 2 /\ pc = "gather"
    /\ Cardinality(Holding) = 2
    /\ tasks[1].pc = "delay" /\ tasks[2].pc = "delay"
    /\ sem_value = MaxConcurrentWin - 2

\* main's own task is run whenever it is ready: __aenter__, the loop head,
\* the end of the end-of-loop sleep, the return from run_scan, __aexit__
RunFairness ==
    /\ WF_vars(AEnter)
    /\ WF_vars(Iterate(MaxFairScans))
    /\ WF_vars(LoopExit)
    /\ WF_vars(PauseDone)
    /\ WF_vars(AExit)

SpecRun == InitFair /\ [][NextFair]_vars /\ Fairness /\ RunFairness

\* run_scan has returned or been left
RunScanOver == pc \in {"exit", "done"}

=============================================================================
